---------------------------- MODULE Spec2Model ----------------------------
(***************************************************************************)
(* Servirtium (Rust): the session controller, the interception engine and  *)
(* the interaction store, as state machines.                               *)
(*                                                                         *)
(* Two generations of the session controller live in the repository:       *)
(*   - ServirtiumServer::before_test / after_test with the listener        *)
(*     closure of ServirtiumServer::start (servirtium_server.rs);          *)
(*     specification Spec;                                                 *)
(*   - TestSession::before_test / after_test (test_session.rs) with the    *)
(*     listener of runner.rs, driven by the binding macro                  *)
(*     (servirtium-codegen); specification SpecSession.                    *)
(* Both work on the engine state of ServirtiumServer and on the store of   *)
(* markdown/mod.rs.                                                        *)
(***************************************************************************)
EXTENDS Integers, Sequences, FiniteSets, TLC

\* ------------------------------------------------------------------ bounds
NumThreads == 2      \* test threads of the harness
MaxTests == 2        \* before_test calls over one run
MaxRequests == 2     \* requests that reach the listener over one run
MaxRunnerRequests == 1  \* requests that reach the runner's listener over one run

Min(a, b) == IF a < b THEN a ELSE b

Threads == 1..NumThreads
Requests == 1..MaxRequests
RunnerRequests == 1..Min(MaxRunnerRequests, MaxRequests)

\* ------------------------------------------------------------- data model
None == [some |-> FALSE]
Some(v) == [some |-> TRUE, val |-> v]

\* A String is the sequence of its characters, each a one-character string;
\* Ctl stands for one control character (a byte below 32).
Ctl == "<ctl>"

\* char::is_whitespace (and \s of the regex crate) on the characters of the
\* model.
Whitespace == {" ", "\t", "\n", "\r"}

\* F(v) and F(v, w), with v and w computed once however often F uses its
\* arguments (let x = v).
Once(F(_), v) == CHOOSE r \in {F(x) : x \in {v}} : TRUE
Once2(F(_, _), v, w) == CHOOSE r \in {F(x, y) : x \in {v}, y \in {w}} : TRUE

\* The upper case and lower case letters of the model.
UppercaseChars == {"D", "E", "G", "T"}
LowercaseChars ==
    { "a", "b", "c", "d", "e", "f", "g", "h", "i", "k", "l", "n", "o", "p", "r", "s", "t",
      "u", "x", "y" }

\* The characters of the model in the order of their code points.
Alphabet ==
    << Ctl, "\t", "\n", "\r", " ", "*", "-", "/", "3", ":",
       "D", "E", "G", "T",
       "a", "b", "c", "d", "e", "f", "g", "h", "i", "k", "l", "n", "o", "p", "r", "s", "t",
       "u", "x", "y" >>

\* The code point order of two characters.
CharLess(c, d) ==
    (CHOOSE i \in 1..Len(Alphabet) : Alphabet[i] = c)
        < (CHOOSE i \in 1..Len(Alphabet) : Alphabet[i] = d)

\* Ord for String: the order header_names.sort() sorts by.
RECURSIVE StringLess(_, _)
StringLess(a, b) ==
    IF b = <<>> THEN FALSE
    ELSE IF a = <<>> THEN TRUE
    ELSE IF Head(a) = Head(b) THEN StringLess(Tail(a), Tail(b))
    ELSE CharLess(Head(a), Head(b))

\* header_names.sort(): the names in ascending order.
RECURSIVE sort(_)
sort(names) ==
    Once(LAMBDA ns :
             IF ns = {} THEN <<>>
             ELSE Once(LAMBDA first : <<first>> \o sort(ns \ {first}),
                       CHOOSE n \in ns : \A m \in ns \ {n} : StringLess(n, m)),
         names)

\* str::trim: leading and trailing whitespace removed.
trim(text) ==
    Once(LAMBDA s :
             LET kept == {i \in 1..Len(s) : s[i] \notin Whitespace} IN
             IF kept = {} THEN <<>>
             ELSE SubSeq(s, CHOOSE i \in kept : \A j \in kept : i <= j,
                            CHOOSE i \in kept : \A j \in kept : i >= j),
         text)

\* str::replace with a non-empty pattern: every non-overlapping match, from
\* the left, is replaced.
RECURSIVE replace(_, _, _)
replace(text, from, to) ==
    Once(LAMBDA s :
             IF Len(s) < Len(from) THEN s
             ELSE IF SubSeq(s, 1, Len(from)) = from
             THEN to \o replace(SubSeq(s, Len(from) + 1, Len(s)), from, to)
             ELSE <<Head(s)>> \o replace(Tail(s), from, to),
         text)

EmptyBody == <<>>

\* A header value holding a control character: HeaderValue::from_str rejects it.
OpaqueValue == <<Ctl>>

RequestData ==
    [method |-> <<"G", "E", "T">>, uri |-> <<"/", "p", "i", "n", "g">>,
     headers |-> (<<"a", "c", "c", "e", "p", "t">> :> <<"*", "/", "*">>), body |-> EmptyBody]

ResponseData(status, headers, body) ==
    [status_code |-> status, headers |-> headers, body |-> body]

InteractionData(n, response) ==
    [interaction_number |-> n, request_data |-> RequestData, response_data |-> response]

\* Header names are spelt as the origin (or the file) spells them.
ContentType == <<"c", "o", "n", "t", "e", "n", "t", "-", "t", "y", "p", "e">>
TextPlain == <<"t", "e", "x", "t", "/", "p", "l", "a", "i", "n">>
Chunked == <<"c", "h", "u", "n", "k", "e", "d">>

\* 200, content-type: text/plain, date: today, body pong
RespPong ==
    ResponseData(200, (ContentType :> TextPlain) @@ (<<"d", "a", "t", "e">> :> <<"t", "o", "d", "a", "y">>), <<"p", "o", "n", "g">>)
\* 200, content-type: text/plain, transfer-encoding: chunked, body pang
RespPang ==
    ResponseData(200, (ContentType :> TextPlain) @@ (<<"t", "r", "a", "n", "s", "f", "e", "r", "-", "e", "n", "c", "o", "d", "i", "n", "g">> :> Chunked), <<"p", "a", "n", "g">>)
\* 404, content-type: text/plain, Transfer-Encoding: chunked, body gone
RespGone ==
    ResponseData(404, (ContentType :> TextPlain) @@ (<<"T", "r", "a", "n", "s", "f", "e", "r", "-", "E", "n", "c", "o", "d", "i", "n", "g">> :> Chunked), <<"g", "o", "n", "e">>)
\* 200, x-note: <control character>, body pong
RespOpaque == ResponseData(200, (<<"x", "-", "n", "o", "t", "e">> :> OpaqueValue), <<"p", "o", "n", "g">>)

\* ------------------------------------------------------------------ store
Ok == [ok |-> TRUE]
OkVal(v) == [ok |-> TRUE, val |-> v]
Err(e) == [ok |-> FALSE, err |-> e]

CRLF == <<"\r", "\n">>
LF == <<"\n">>

\* The characters [a-zA-Z\-] of HEADER_REGEX's header_key.
HeaderKeyChars == UppercaseChars \cup LowercaseChars \cup {"-"}

\* The lines of a text: what lies between its \n characters.
RECURSIVE Lines(_)
Lines(text) ==
    Once(LAMBDA s :
             IF \A i \in 1..Len(s) : s[i] # "\n" THEN <<s>>
             ELSE Once(LAMBDA n : <<SubSeq(s, 1, n - 1)>> \o Lines(SubSeq(s, n + 1, Len(s))),
                       CHOOSE i \in 1..Len(s) :
                           s[i] = "\n" /\ \A j \in 1..(i - 1) : s[j] # "\n"),
         text)

\* The leftmost match of HEADER_REGEX in a line: the first run of key
\* characters that is followed by ": " is header_key (as ":" is no key
\* character, the run ends right before the first ": " that follows a key
\* character, and starts where the key characters before it start), the rest
\* of the line (. matches \r, $ stands before \n) is header_value. None when
\* no run is.
HeaderCapture(line) ==
    Once(LAMBDA l :
             Once(LAMBDA ends :
                      IF ends = {} THEN None
                      ELSE Once(LAMBDA e :
                                    Once(LAMBDA i :
                                             Some([header_key |-> SubSeq(l, i, e),
                                                   header_value |-> SubSeq(l, e + 3, Len(l))]),
                                         CHOOSE i \in 1..e :
                                             /\ \A j \in i..e : l[j] \in HeaderKeyChars
                                             /\ i = 1 \/ l[i - 1] \notin HeaderKeyChars),
                                CHOOSE e \in ends : \A x \in ends : e <= x),
                  { e \in 1..(Len(l) - 2) :
                      /\ l[e] \in HeaderKeyChars
                      /\ l[e + 1] = ":" /\ l[e + 2] = " " }),
         line)

\* MarkdownInteractionManager::parse_headers over the lines of the part: each
\* capture is inserted with key and value trimmed, a later one replacing an
\* earlier one of the same key.
RECURSIVE parse_header_lines(_, _)
parse_header_lines(lines, headers) ==
    Once2(LAMBDA ls, hs :
              IF ls = <<>> THEN hs
              ELSE Once(LAMBDA capture :
                            parse_header_lines(
                                Tail(ls),
                                IF capture = None THEN hs
                                ELSE (trim(capture.val.header_key)
                                          :> trim(capture.val.header_value)) @@ hs),
                        HeaderCapture(Head(ls))),
          lines, headers)

\* MarkdownInteractionManager::parse_headers
parse_headers(headers_part) == parse_header_lines(Lines(headers_part), <<>>)

\* The header lines save_interactions writes for a header map: the names
\* sorted, each line "name: value" closed by eol.
RECURSIVE write_headers(_, _, _)
write_headers(names, headers, eol) ==
    Once2(LAMBDA ns, hs :
              IF ns = <<>> THEN <<>>
              ELSE Head(ns) \o <<":", " ">> \o hs[Head(ns)] \o eol
                       \o write_headers(Tail(ns), hs, eol),
          names, headers)

\* One interaction as save_interactions writes it. The fixed headings and the
\* ``` fences are not spelt out: a block keeps what is written between them
\* (the texts of the model hold no backtick, so MARKDOWN_REGEX finds each
\* fenced part where it was written). The request header lines end in \r\n
\* (write!), the response header lines in \n (writeln!).
write_interaction(interaction) ==
    [ interaction_number |-> interaction.interaction_number,
      http_method |-> interaction.request_data.method,
      after_method |-> interaction.request_data.uri \o CRLF \o CRLF,
      request_headers_part |->
          CRLF \o write_headers(sort(DOMAIN interaction.request_data.headers),
                                interaction.request_data.headers, CRLF),
      request_body_part |-> CRLF \o interaction.request_data.body \o CRLF,
      response_headers_part |->
          CRLF \o write_headers(sort(DOMAIN interaction.response_data.headers),
                                interaction.response_data.headers, LF),
      status_code |-> interaction.response_data.status_code,
      response_body_part |-> CRLF \o interaction.response_data.body \o CRLF ]

\* MarkdownInteractionManager::save_interactions: the file is created anew
\* and holds one block per interaction, in order.
save_interactions(xs) == [i \in 1..Len(xs) |-> write_interaction(xs[i])]

\* MARKDOWN_REGEX matches a block when http_method is [A-Z]+ and the heading
\* "### Request headers" follows a run of non-space characters.
MatchesMarkdownRegex(block) ==
    /\ block.http_method # <<>>
    /\ \A i \in 1..Len(block.http_method) : block.http_method[i] \in UppercaseChars
    /\ \A i \in 1..Len(block.after_method) : block.after_method[i] # " "

\* The InteractionData load_interactions builds from the captures of one
\* match: uri is the whole run [^ ]* before the heading, each fenced part is
\* taken without the whitespace around it (\s* on both sides).
read_interaction(block) ==
    [ interaction_number |-> block.interaction_number,
      request_data |->
          [ method |-> block.http_method,
            uri |-> block.after_method,
            headers |-> parse_headers(trim(block.request_headers_part)),
            body |-> trim(block.request_body_part) ],
      response_data |->
          [ status_code |-> block.status_code,
            headers |-> parse_headers(trim(block.response_headers_part)),
            body |-> trim(block.response_body_part) ] ]

\* MarkdownInteractionManager::load_interactions: every interaction block of
\* the file, an error when there is none (or no file).
load_interactions(file) ==
    Once(LAMBDA matched :
             IF matched = <<>> THEN Err("InvalidMarkdownFormat")
             ELSE OkVal([i \in 1..Len(matched) |-> read_interaction(matched[i])]),
         SelectSeq(file, MatchesMarkdownRegex))

RADIUS == 10

\* MarkdownInteractionManager::get_context; index counts from 0.
get_context(body, index) ==
    LET left_bound == IF index >= RADIUS THEN index - RADIUS ELSE 0
        right_bound == IF index + RADIUS < Len(body) THEN index + RADIUS
                       ELSE Len(body) - 1
    IN  SubSeq(body, left_bound + 1, right_bound)

\* The loop of find_difference from character index on, line and column
\* being what the earlier characters left.
RECURSIVE find_difference_from(_, _, _, _, _)
find_difference_from(old_body, new_body, index, line, column) ==
    IF index >= Min(Len(old_body), Len(new_body)) THEN None
    ELSE LET left == old_body[index + 1]
             right == new_body[index + 1]
             line1 == IF left = "\n" THEN line + 1 ELSE line
             column1 == IF left = "\n" THEN 1 ELSE column + 1
         IN  IF left # right
             THEN Some([ line |-> line1, column |-> column1,
                         old_context |-> get_context(old_body, index),
                         new_context |-> get_context(new_body, index) ])
             ELSE find_difference_from(old_body, new_body, index + 1, line1, column1)

\* MarkdownInteractionManager::find_difference
find_difference(old_body, new_body) ==
    Once2(LAMBDA old, new : find_difference_from(old, new, 0, 1, 0), old_body, new_body)

\* MarkdownsHeaderDifference
HeaderDifference(name, old, new) ==
    [header_name |-> name, old_header_value |-> old, new_header_value |-> new]

\* MarkdownInteractionManager::check_headers. The sets are iterated in an
\* order the code does not fix: the value is None or Some of the set of the
\* differences one of the orders reports.
check_headers(lhs, rhs) ==
    Once2(LAMBDA l, r :
              LET left_only == DOMAIN l \ DOMAIN r
                  unequal == {k \in DOMAIN l \cap DOMAIN r : trim(l[k]) # trim(r[k])}
              IN  IF left_only # {}
                  THEN Some({HeaderDifference(k, Some(l[k]), None) : k \in left_only})
                  ELSE IF unequal # {}
                  THEN Some({HeaderDifference(k, Some(trim(l[k])), Some(trim(r[k]))) :
                               k \in unequal})
                  ELSE None,
          lhs, rhs)

\* A comparison that keeps the line endings of the bodies as they are.
normalise_without_line_endings(body) == trim(body)

\* body.trim().replace("\r\n", "\n")
normalise(body) == replace(trim(body), CRLF, LF)

\* One positional pair of check_data_unchanged: the bodies of the request,
\* then of the response, then the headers of the request, then of the
\* response (the status code is not compared). None, or the difference.
PairDifference(markdown, interaction) ==
    Once2(LAMBDA old, new :
              Once2(LAMBDA request_body, response_body :
                        IF request_body # None
                        THEN Some([type |-> "Body", difference |-> request_body.val,
                                   location |-> "Request"])
                        ELSE IF response_body # None
                        THEN Some([type |-> "Body", difference |-> response_body.val,
                                   location |-> "Response"])
                        ELSE Once2(LAMBDA request_headers, response_headers :
                                       IF request_headers # None
                                       THEN Some([type |-> "Header",
                                                  difference |-> request_headers.val,
                                                  location |-> "Request"])
                                       ELSE IF response_headers # None
                                       THEN Some([type |-> "Header",
                                                  difference |-> response_headers.val,
                                                  location |-> "Response"])
                                       ELSE None,
                                   check_headers(old.request_data.headers,
                                                 new.request_data.headers),
                                   check_headers(old.response_data.headers,
                                                 new.response_data.headers)),
                    find_difference(normalise(old.request_data.body),
                                    normalise(new.request_data.body)),
                    find_difference(normalise(old.response_data.body),
                                    normalise(new.response_data.body))),
          markdown, interaction)

PairDiffers(old, new) == PairDifference(old, new) # None

\* MarkdownInteractionManager::check_data_unchanged: loads the file and
\* compares it with the captured interactions pair by pair (zip); the first
\* pair that differs ends it with Error::MarkdownsDiffer.
check_data_unchanged(file, xs) ==
    Once(LAMBDA loaded :
             IF ~loaded.ok THEN Err(loaded.err)
             ELSE Once(LAMBDA differences :
                           IF \A i \in DOMAIN differences : differences[i] = None THEN Ok
                           ELSE [ok |-> FALSE, err |-> "MarkdownsDiffer",
                                 difference |->
                                     differences[CHOOSE i \in DOMAIN differences :
                                                    /\ differences[i] # None
                                                    /\ \A j \in 1..(i - 1) :
                                                          differences[j] = None].val],
                       [i \in 1..Min(Len(xs), Len(loaded.val)) |->
                           PairDifference(loaded.val[i], xs[i])]),
         load_interactions(file))

\* ------------------------------------------------------ the data of a run
\* What the upstream origin may answer in Record.
UpstreamReplies == {RespPong, RespPang}

\* The conversation file before the first test: absent or without any
\* interaction block (<<>>), or written by an earlier recording (and edited
\* by hand, where a header value holds a control character).
InitialFiles ==
    { <<>>,
      save_interactions(<<InteractionData(0, RespPong)>>),
      save_interactions(<<InteractionData(0, RespPong), InteractionData(1, RespGone)>>),
      save_interactions(<<InteractionData(0, RespOpaque), InteractionData(1, RespPang)>>),
      save_interactions(<<InteractionData(0, RespPong), InteractionData(1, RespOpaque)>>) }

Modes == {"Playback", "Record"}

\* char::to_lowercase on the characters of the model.
LowercaseChar(c) ==
    IF c = "D" THEN "d" ELSE IF c = "E" THEN "e" ELSE IF c = "G" THEN "g"
    ELSE IF c = "T" THEN "t" ELSE c

\* key.to_lowercase()
ToLowercase(name) == [i \in 1..Len(name) |-> LowercaseChar(name[i])]

\* RemoveHeadersMutation::new: the names are kept in lower case.
RemoveHeadersMutation(names) ==
    [mutation_type |-> "Headers", remove |-> {ToLowercase(n) : n \in names}]

\* Mutation::from_headers_mutation: a headers mutation and the side of the
\* interaction ("Request" or "Response") it bears on.
from_headers_mutation(mutation, data_type) == mutation @@ [data_type |-> data_type]

\* HeadersMutation::mutate of RemoveHeadersMutation: headers.remove(name) for
\* each kept name.
RemoveHeadersMutation_mutate(m, headers) ==
    [k \in DOMAIN headers \ m.remove |-> headers[k]]

\* Regex::replace with a pattern that is a literal text and a substitution
\* without group references: the leftmost match is replaced, the rest of the
\* text is kept.
RECURSIVE Regex_replace(_, _, _)
Regex_replace(pattern, text, substitution) ==
    IF Len(text) < Len(pattern) THEN text
    ELSE IF SubSeq(text, 1, Len(pattern)) = pattern
    THEN substitution \o SubSeq(text, Len(pattern) + 1, Len(text))
    ELSE <<Head(text)>> \o Regex_replace(pattern, Tail(text), substitution)

\* BodyReplaceRegexMutation::new
BodyReplaceRegexMutation(pattern, substitution) ==
    [mutation_type |-> "Body", pattern |-> pattern, substitution |-> substitution]

\* BodyMutation::mutate of BodyReplaceRegexMutation
BodyReplaceRegexMutation_mutate(m, body) == Regex_replace(m.pattern, body, m.substitution)

\* Mutation::mutate: the headers, or the body, of the side the mutation
\* bears on are handed to the headers mutation, or to the body mutation.
mutate(m, interaction) ==
    IF m.mutation_type = "Headers"
    THEN IF m.data_type = "Request"
         THEN [interaction EXCEPT !.request_data.headers = RemoveHeadersMutation_mutate(m, @)]
         ELSE [interaction EXCEPT !.response_data.headers = RemoveHeadersMutation_mutate(m, @)]
    ELSE IF m.data_type = "Request"
         THEN [interaction EXCEPT !.request_data.body = BodyReplaceRegexMutation_mutate(m, @)]
         ELSE [interaction EXCEPT !.response_data.body = BodyReplaceRegexMutation_mutate(m, @)]

\* ServirtiumConfiguration: mode, upstream domain (present or not), flag;
\* ServirtiumConfiguration::new leaves the mutation lists empty.
Configuration(mode, domain, fail) ==
    [interaction_mode |-> mode, domain_name |-> domain, fail_if_markdown_changed |-> fail,
     playback_response_mutations |-> <<>>,
     record_response_mutations |-> <<>>]

\* ServirtiumConfiguration::add_record_response_mutations: the list extended.
add_record_response_mutations(config, ms) ==
    [config EXCEPT !.record_response_mutations = @ \o ms]

\* ServirtiumConfiguration::add_playback_response_mutations: the list
\* extended.
add_playback_response_mutations(config, ms) ==
    [config EXCEPT !.playback_response_mutations = @ \o ms]

\* The configurations the tests install (domain and flag play no part in
\* Playback); the playback asks for the date header to be left out of what
\* the client gets, one recording for it to be left out of what is stored.
Configurations ==
    { add_playback_response_mutations(
          Configuration("Playback", TRUE, FALSE),
          <<from_headers_mutation(RemoveHeadersMutation({<<"D", "a", "t", "e">>}), "Response")>>),
      add_record_response_mutations(
          Configuration("Record", TRUE, FALSE),
          <<from_headers_mutation(RemoveHeadersMutation({<<"D", "a", "t", "e">>}), "Response")>>),
      Configuration("Record", TRUE, TRUE),
      Configuration("Record", FALSE, FALSE) }



\* interaction_number is a u8.
U8_MAX == 255

\* The status of a response built without one (http::response::Builder).
DefaultStatus == 200

\* ------------------------------------------------------------------ state
VARIABLES
    is_test_running,  \* the flag of the test gate (TEST_LOCK / TestSession.lock)
    pc,               \* where each test thread stands
    instance_slot,    \* SERVIRTIUM_INSTANCE holds Some(server) (TRUE) or None
    started,          \* INITIALIZE_SERVIRTIUM has run: the listener exists
    listeners,        \* listener threads spawned so far
    server,           \* the ServirtiumServer value, in the slot or taken
    session_error,    \* TEST_SESSION.error
    disk,             \* the conversation file: its interaction blocks
    hpc,              \* where the handler of each request stands
    last_reply,       \* the HTTP response the listener sent last, with the error
                      \* its handler met ("" when none); None once read
    pending,          \* the ResponseData a runner handler holds after the engine call
    tests_started,    \* before_test calls so far
    result,           \* what the after_test of each thread is about to return
    served,           \* history: the requests handled in the running test
    body_panicked,    \* the test body of the thread panicked
    before_calls,     \* history: before_test calls made by each wrapper run
    after_calls,      \* history: after_test calls made by each wrapper run
    outcome,          \* how the wrapper that ended last ended
    call,             \* a function of the store or of the mutations called on its
                      \* own: its name and arguments
    ret,              \* what that call returned, None before it returns
    installed,        \* history: the configuration the last before_test that
                      \* returned was called with
    running           \* the handler tasks a worker thread of the runtime is running

vars == << is_test_running, pc, instance_slot, started, listeners, server,
           session_error, disk, hpc, last_reply, pending, tests_started, result,
           served, body_panicked, before_calls, after_calls, outcome, call, ret,
           installed, running >>

gate_vars == << is_test_running, pc >>
\* What the gate does not touch.
beyond_gate == << instance_slot, started, listeners, server, session_error, disk, hpc,
                 last_reply, pending, result, served >>
macro_vars == << body_panicked, before_calls, after_calls, outcome >>
call_vars == << call, ret >>

\* ServirtiumServer::new
NewServer ==
    [ configuration |-> None,
      error |-> None,
      interactions |-> <<>>,
      markdown_data |-> None,
      interaction_number |-> 0 ]

\* ----------------------------------------------------------------- engine
\* HeaderValue::from_str accepts visible ASCII only.
ValidHeaderValue(v) == \A i \in 1..Len(v) : v[i] \notin {Ctl, "\n", "\r"}

\* ServirtiumServer::put_headers: every header converted, or the first error.
put_headers(headers) ==
    IF \A k \in DOMAIN headers : ValidHeaderValue(headers[k])
    THEN OkVal([k \in {ToLowercase(n) : n \in DOMAIN headers} |->
                    headers[CHOOSE n \in DOMAIN headers : ToLowercase(n) = k]])
    ELSE Err("InvalidHeaderValue")

\* ServirtiumServer::filter_headers
filter_headers(headers) ==
    [k \in {n \in DOMAIN headers : n # <<"T", "r", "a", "n", "s", "f", "e", "r", "-", "E", "n", "c", "o", "d", "i", "n", "g">> \/ headers[n] # Chunked}
        |-> headers[k]]

\* What the client receives.
HttpResponse(status, headers, body) ==
    [status |-> status, headers |-> headers, body |-> body]

EmptyHeaders == [k \in {} |-> <<>>]

\* self.interaction_number += 1 on a u8: at 255 the addition panics (overflow
\* checks on) or wraps to 0 (overflow checks off).
IncrementOutcomes(n) ==
    IF n = U8_MAX THEN {[panic |-> TRUE, val |-> n], [panic |-> FALSE, val |-> 0]}
    ELSE {[panic |-> FALSE, val |-> n + 1]}

\* The outcome of a handler function: a response, an error or a panic, and
\* the server as the function leaves it.
Outcome(kind, s, response, err, index) ==
    [kind |-> kind, server |-> s, response |-> response, err |-> err, index |-> index,
     forwarded |-> FALSE]

NoResponse == HttpResponse(0, EmptyHeaders, EmptyBody)

\* A response as sent, with the error of the handler that sent it.
Reply(response, err) == [response |-> response, error |-> err]

\* ServirtiumServer::handle_playback up to the indexing of line 201: the file
\* is loaded on the first request, the ordinal advanced on the later ones,
\* and markdown_data[interaction_number] taken. An outcome of kind "ok"
\* carries the interaction in data.
playback_data(s, file) ==
    LET loaded == load_interactions(file) IN
    IF s.markdown_data = None /\ ~loaded.ok
    THEN {[kind |-> "err", server |-> s, err |-> "MarkdownParseError", index |-> -1,
           forwarded |-> FALSE]}
    ELSE
      { LET s1 == IF s.markdown_data = None
                  THEN [s EXCEPT !.markdown_data = Some(loaded.val)]
                  ELSE [s EXCEPT !.interaction_number = inc.val]
            data == s1.markdown_data.val
            n == s1.interaction_number
        IN  IF s.markdown_data # None /\ inc.panic
            THEN [kind |-> "panic", server |-> s, err |-> "overflow", index |-> -1,
                  forwarded |-> FALSE]
            ELSE IF n >= Len(data)
            THEN [kind |-> "panic", server |-> s1, err |-> "index out of bounds", index |-> n,
                  forwarded |-> FALSE]
            ELSE [kind |-> "ok", server |-> s1, err |-> "", index |-> n, forwarded |-> FALSE,
                  data |-> data[n + 1].response_data]
        : inc \in IncrementOutcomes(s.interaction_number) }

\* ServirtiumServer::handle_playback: the response is built from the headers
\* (filtered, converted) and the body of the interaction; no status is set,
\* so the builder's default stands.
handle_playback(s, file) ==
    { IF o.kind # "ok"
      THEN Outcome(o.kind, o.server, NoResponse, o.err, o.index)
      ELSE LET headers == put_headers(filter_headers(o.data.headers)) IN
           IF ~headers.ok
           THEN Outcome("err", o.server, NoResponse, headers.err, o.index)
           ELSE Outcome("ok", o.server,
                        HttpResponse(DefaultStatus, headers.val, o.data.body), "", o.index)
      : o \in playback_data(s, file) }

\* ServirtiumServer::handle_record up to the interaction of line 225: the
\* upstream reply is captured under the current ordinal. upstream: what the
\* outbound call (forward_request) returned; forwarded: the call was made.
record_data(s, upstream) ==
    IF ~upstream.ok
    THEN [kind |-> "err", server |-> s, err |-> "ReqwestError", index |-> -1,
          forwarded |-> TRUE]
    ELSE [kind |-> "ok", server |-> s, err |-> "", index |-> Len(s.interactions),
          forwarded |-> TRUE,
          data |-> InteractionData(s.interaction_number, upstream.val)]

\* A handle_record that would keep the last interaction only.
handle_record_keeping_the_last(s, read_ok, upstream) ==
    LET o == record_data(s, upstream) IN
    IF ~read_ok THEN Outcome("err", s, NoResponse, "InvalidBody", -1)
    ELSE [ IF o.kind # "ok" THEN Outcome("err", s, NoResponse, o.err, -1)
           ELSE LET headers == put_headers(o.data.response_data.headers) IN
                IF ~headers.ok
                THEN Outcome("err", s, NoResponse, headers.err, -1)
                ELSE Outcome("ok",
                             [s EXCEPT !.interactions = <<o.data>>],
                             HttpResponse(o.data.response_data.status_code, headers.val,
                                          o.data.response_data.body),
                             "", o.index)
         EXCEPT !.forwarded = o.forwarded ]

\* ServirtiumServer::handle_record; read_ok: the request body could be read.
handle_record(s, read_ok, upstream) ==
    LET o == record_data(s, upstream) IN
    IF ~read_ok THEN Outcome("err", s, NoResponse, "InvalidBody", -1)
    ELSE [ IF o.kind # "ok" THEN Outcome("err", s, NoResponse, o.err, -1)
           ELSE LET headers == put_headers(o.data.response_data.headers) IN
                IF ~headers.ok
                THEN Outcome("err", s, NoResponse, headers.err, -1)
                ELSE Outcome("ok",
                             [s EXCEPT !.interactions = Append(@, o.data)],
                             HttpResponse(o.data.response_data.status_code, headers.val,
                                          o.data.response_data.body),
                             "", o.index)
         EXCEPT !.forwarded = o.forwarded ]

\* The dispatch of ServirtiumServer::handle_request.
\* The dispatch without the match on domain_name() of line 169: a recording
\* without a domain goes on to handle_record.
Dispatch_without_domain_check(s, file, read_ok, upstream) ==
    IF s.configuration = None
    THEN {Outcome("panic", s, NoResponse, "unwrap on None", -1)}
    ELSE IF s.configuration.val.interaction_mode = "Playback"
    THEN handle_playback(s, file)
    ELSE {handle_record(s, read_ok, upstream)}

Dispatch(s, file, read_ok, upstream) ==
    IF s.configuration = None
    THEN {Outcome("panic", s, NoResponse, "unwrap on None", -1)}
    ELSE IF s.configuration.val.interaction_mode = "Playback"
    THEN handle_playback(s, file)
    ELSE IF s.configuration.val.domain_name
    THEN {handle_record(s, read_ok, upstream)}
    ELSE {Outcome("err", s, NoResponse, "NotConfigured", -1)}

\* ServirtiumServer::handle_request: an error is latched into self.error and
\* answered with an empty 500.
handle_request(s, file, read_ok, upstream) ==
    { IF o.kind = "err"
      THEN [o EXCEPT !.server = [o.server EXCEPT !.error = Some(o.err)],
                     !.response = HttpResponse(500, EmptyHeaders, EmptyBody)]
      ELSE o
      : o \in Dispatch(s, file, read_ok, upstream) }

\* A reset that would forget the configuration as well.
reset_with_configuration_cleared(s) ==
    [s EXCEPT !.interactions = <<>>,
              !.interaction_number = 0,
              !.markdown_data = None,
              !.error = None,
              !.configuration = None]

\* ServirtiumServer::reset
reset(s) ==
    [s EXCEPT !.interactions = <<>>,
              !.interaction_number = 0,
              !.markdown_data = None,
              !.error = None]

\* ServirtiumServer::after_test up to its return: the result, the server and
\* the file it leaves. kind "unwound": the ? of line 100 returned early, so
\* reset, release_instance and exit_test were skipped and the instance was
\* dropped.
\* after_test without the mode test of line 92: the captured interactions
\* (none in Playback) are saved whatever the mode.
server_after_test_without_mode_check(s, file) ==
    [kind |-> "returned",
     result |-> IF s.error = None THEN Ok ELSE Err(s.error.val),
     server |-> reset(s),
     file |-> IF s.error = None THEN save_interactions(s.interactions) ELSE file]

\* after_test without the error.is_none() of line 92: a Record test saves
\* what it captured even when an error was latched.
server_after_test_without_error_check(s, file) ==
    [kind |-> "returned",
     result |-> IF s.error = None THEN Ok ELSE Err(s.error.val),
     server |-> reset(s),
     file |-> IF s.configuration.val.interaction_mode = "Record"
              THEN save_interactions(s.interactions) ELSE file]

server_after_test(s, file) ==
    LET config == s.configuration.val
        latched == s.error
        s0 == [s EXCEPT !.error = None]
        compare == check_data_unchanged(file, s.interactions)
    IN
    IF latched = None /\ config.interaction_mode = "Record"
    THEN IF config.fail_if_markdown_changed /\ ~compare.ok /\ compare.err # "MarkdownsDiffer"
         THEN [kind |-> "unwound", result |-> Err("MarkdownParseError"),
               server |-> s0, file |-> file]
         ELSE IF config.fail_if_markdown_changed /\ ~compare.ok
         THEN [kind |-> "returned", result |-> Err("MarkdownDataChanged"),
               server |-> reset(s0), file |-> file]
         ELSE [kind |-> "returned", result |-> Ok,
               server |-> reset(s0), file |-> save_interactions(s.interactions)]
    ELSE [kind |-> "returned",
          result |-> IF latched = None THEN Ok ELSE Err(latched.val),
          server |-> reset(s0), file |-> file]

\* ------------------------------------------------------------------- Init
Init ==
    /\ is_test_running = FALSE
    /\ pc = [t \in Threads |-> "idle"]
    /\ instance_slot = TRUE
    /\ started = FALSE
    /\ listeners = 0
    /\ server = NewServer
    /\ session_error = None
    /\ disk \in InitialFiles
    /\ hpc = [r \in Requests |-> "new"]
    /\ last_reply = None
    /\ pending = [r \in Requests |-> None]
    /\ tests_started = 0
    /\ result = [t \in Threads |-> None]
    /\ served = <<>>
    /\ body_panicked = [t \in Threads |-> FALSE]
    /\ before_calls = [t \in Threads |-> 0]
    /\ after_calls = [t \in Threads |-> 0]
    /\ outcome = "none"
    /\ call = None
    /\ ret = None
    /\ installed = None
    /\ running = {}

\* --------------------------------------------------------------- the gate
\* enter_test: cond.wait_while(lock, |running| *running), then the flag is set.
\* The thread either passes or goes to sleep on the condition variable.
\* enter_test without the wait_while: the flag is set whatever it was.
enter_test_without_wait(t) ==
    /\ pc' = [pc EXCEPT ![t] = "entered"]
    /\ is_test_running' = TRUE

enter_test(t) ==
    IF is_test_running
    THEN /\ pc' = [pc EXCEPT ![t] = "waiting"]
         /\ UNCHANGED is_test_running
    ELSE /\ pc' = [pc EXCEPT ![t] = "entered"]
         /\ is_test_running' = TRUE

\* cond.notify_one(): one of the threads asleep on the condition variable, if
\* there is any, is woken.
notify_one(p) ==
    IF \E w \in Threads : p[w] = "waiting"
    THEN {[p EXCEPT ![w] = "woken"] : w \in {x \in Threads : p[x] = "waiting"}}
    ELSE {p}

\* exit_test without the cond.notify_one(): the flag is cleared, nobody is woken.
exit_test_without_notify(t, next_pc) ==
    /\ is_test_running' = FALSE
    /\ pc' = [pc EXCEPT ![t] = next_pc]

\* exit_test: the flag is cleared and one waiter is notified.
exit_test(t, next_pc) ==
    /\ is_test_running' = FALSE
    /\ pc' \in notify_one([pc EXCEPT ![t] = next_pc])

\* A thread calls before_test and reaches the gate. Idle threads do not
\* differ, so the one that calls is taken to be the first of them.
CallEnterTest(t) ==
    /\ pc[t] = "idle"
    /\ \A u \in Threads : u < t => pc[u] # "idle"
    /\ tests_started < MaxTests
    /\ tests_started' = tests_started + 1
    /\ enter_test(t)
    /\ UNCHANGED << beyond_gate, macro_vars, call_vars, installed, running >>

\* A woken thread takes the lock again and evaluates the wait_while condition.
WakeUp(t) ==
    /\ pc[t] = "woken"
    /\ enter_test(t)
    /\ UNCHANGED << tests_started, beyond_gate, macro_vars, call_vars, installed, running >>

\* A condition variable may wake a waiter without any notification.
SpuriousWakeUp(t) ==
    /\ pc[t] = "waiting"
    /\ pc' = [pc EXCEPT ![t] = "woken"]
    /\ UNCHANGED << is_test_running, tests_started, beyond_gate, macro_vars, call_vars, installed, running >>

\* ------------------------------------------- ServirtiumServer as controller
\* An instance() that would not wait for the slot to hold the server.
instance_without_wait == instance_slot' = FALSE

\* ServirtiumServer::instance: waits until the slot holds the server, takes it.
instance ==
    /\ instance_slot
    /\ instance_slot' = FALSE

\* ServirtiumServer::release_instance
release_instance == instance_slot' = TRUE

\* ServirtiumServer::start: call_once spawns the listener thread.
\* start without the Once: every call spawns a listener thread.
start_without_once ==
    /\ started' = TRUE
    /\ listeners' = listeners + 1

start ==
    /\ started' = TRUE
    /\ listeners' = IF started THEN listeners ELSE listeners + 1

\* before_test after enter_test: Self::instance().
BeforeTestInstance(t) ==
    /\ pc[t] = "entered"
    /\ instance
    /\ pc' = [pc EXCEPT ![t] = "bt_instance"]
    /\ UNCHANGED << is_test_running, started, listeners, server, session_error, disk,
                    hpc, last_reply, pending, tests_started, result, served, macro_vars, call_vars, installed, running >>

\* before_test: server.start(), the configuration installed, the instance
\* released; before_test returns.
BeforeTestInstall(t) ==
    /\ pc[t] = "bt_instance"
    /\ start
    /\ \E c \in Configurations :
          /\ server' = [server EXCEPT !.configuration = Some(c)]
          /\ installed' = Some(c)
    /\ release_instance
    /\ pc' = [pc EXCEPT ![t] = "in_test"]
    /\ served' = <<>>
    /\ result' = [result EXCEPT ![t] = None]
    /\ UNCHANGED << is_test_running, session_error, disk, hpc, last_reply, pending, tests_started,
                    macro_vars, call_vars, running >>

\* after_test: Self::instance().
AfterTestInstance(t) ==
    /\ pc[t] = "in_test"
    /\ instance
    /\ pc' = [pc EXCEPT ![t] = "at_instance"]
    /\ UNCHANGED << is_test_running, started, listeners, server, session_error, disk,
                    hpc, last_reply, pending, tests_started, result, served, macro_vars, call_vars, installed, running >>

\* after_test from the taken instance to release_instance, or to the early
\* return that drops the instance: Drop joins the listener thread, which
\* never ends.
AfterTestRun(t) ==
    /\ pc[t] = "at_instance"
    /\ \E r \in {server_after_test(server, disk)} :
       /\ server' = r.server
       /\ disk' = r.file
       /\ result' = [result EXCEPT ![t] = Some(r.result)]
       /\ IF r.kind = "returned"
          THEN release_instance /\ pc' = [pc EXCEPT ![t] = "at_exit"]
          ELSE UNCHANGED instance_slot /\ pc' = [pc EXCEPT ![t] = "joining"]
    /\ UNCHANGED << is_test_running, started, listeners, session_error, hpc, last_reply,
                    pending, tests_started, served, macro_vars, call_vars, installed, running >>

\* after_test: Self::exit_test(), then the result is returned: the caller
\* has it, and the record of the test's requests ends.
AfterTestExit(t) ==
    /\ pc[t] = "at_exit"
    /\ exit_test(t, "idle")
    /\ result' = [result EXCEPT ![t] = None]
    /\ served' = <<>>
    /\ UNCHANGED << instance_slot, started, listeners, server, session_error, disk, hpc,
                    last_reply, pending, tests_started, macro_vars, call_vars, installed, running >>

\* ------------------------------------------------------------ the listener
\* What reqwest::get may return.
UpstreamOutcomes == {Err("ReqwestError")} \cup {OkVal(r) : r \in UpstreamReplies}

\* Some test is between the return of before_test and its after_test.
InTest == \E t \in Threads : pc[t] \in {"in_test", "body"}

\* A request reaches the listener; its handler task starts. The client has
\* read the previous response by then.
Arrive(r) ==
    /\ started
    /\ hpc[r] = "new"
    /\ IF r = 1 THEN TRUE ELSE hpc[r - 1] # "new"
    /\ hpc' = [hpc EXCEPT ![r] = "accepted"]
    /\ last_reply' = None
    /\ UNCHANGED << gate_vars, instance_slot, started, listeners, server, session_error,
                    disk, pending, tests_started, result, served, macro_vars, call_vars, installed, running >>

\* The service closure of start: Self::instance(). The handlers waiting for
\* the instance do not differ, so the one that gets it is taken to be the
\* earliest.
HandlerInstance(r) ==
    /\ hpc[r] = "accepted"
    /\ \A q \in Requests : q < r => hpc[q] # "accepted"
    /\ instance
    /\ hpc' = [hpc EXCEPT ![r] = "holding"]
    /\ UNCHANGED << gate_vars, started, listeners, server, session_error,
                    disk, last_reply, pending, tests_started, result, served, macro_vars, call_vars, installed, running >>

\* What the history keeps of a handled request: how it ended, the error it
\* met ("" when none), the position it served or captured, whether the origin
\* was called.
Served(o) ==
    [kind |-> o.kind, err |-> o.err, index |-> o.index, forwarded |-> o.forwarded]

\* The service closure of start: handle_request(req).await, release_instance,
\* the response. A panic unwinds the task: the instance is dropped and Drop
\* joins the listener thread.
HandlerRun(r) ==
    /\ hpc[r] = "holding"
    /\ \E read_ok \in BOOLEAN, upstream \in UpstreamOutcomes :
         \E o \in handle_request(server, disk, read_ok, upstream) :
            /\ server' = o.server
            /\ served' = IF InTest THEN Append(served, Served(o)) ELSE served
            /\ IF o.kind = "panic"
               THEN /\ hpc' = [hpc EXCEPT ![r] = "joining"]
                    /\ UNCHANGED << instance_slot, last_reply >>
               ELSE /\ hpc' = [hpc EXCEPT ![r] = "done"]
                    /\ release_instance
                    /\ last_reply' = Some(Reply(o.response, o.err))
    /\ UNCHANGED << gate_vars, started, listeners, session_error, disk, pending,
                    tests_started, result, macro_vars, call_vars, installed, running >>

Next ==
    \/ \E t \in Threads : CallEnterTest(t)
    \/ \E t \in Threads : WakeUp(t)
    \/ \E t \in Threads : SpuriousWakeUp(t)
    \/ \E t \in Threads : BeforeTestInstance(t)
    \/ \E t \in Threads : BeforeTestInstall(t)
    \/ \E t \in Threads : AfterTestInstance(t)
    \/ \E t \in Threads : AfterTestRun(t)
    \/ \E t \in Threads : AfterTestExit(t)
    \/ \E r \in Requests : Arrive(r)
    \/ \E r \in Requests : HandlerInstance(r)
    \/ \E r \in Requests : HandlerRun(r)

Spec == Init /\ [][Next]_vars

\* ------------------------------------------------ TestSession and the runner
\* TestSession::after_test up to release_instance: the closure func, then
\* reset. slot is TEST_SESSION.error.
session_after_test(s, slot, file) ==
    LET config == s.configuration.val
        saved == IF s.interactions # <<>> THEN save_interactions(s.interactions) ELSE file
        compare == check_data_unchanged(saved, s.interactions)
    IN
    IF slot # None
    THEN [result |-> Err(slot.val), server |-> reset(s), slot |-> None, file |-> file]
    ELSE IF config.interaction_mode = "Record"
    THEN [result |-> IF config.fail_if_markdown_changed /\ ~compare.ok
                     THEN Err(compare.err) ELSE Ok,
          server |-> reset(s), slot |-> None, file |-> saved]
    ELSE [result |-> Ok, server |-> reset(s), slot |-> None, file |-> file]

\* TestSession::set_error: the slot holds the error, whatever it held.
set_error(err) == Some(err)

\* instance.handle_request(request_data) as runner::handle_request calls it:
\* the dispatch and the data steps of ServirtiumServer, the ResponseData (or
\* the error) handed back to the runner, which builds the HTTP response.
engine_handle_request(s, file, upstream) ==
    IF s.configuration = None
    THEN {[kind |-> "panic", server |-> s, err |-> "unwrap on None", index |-> -1,
           forwarded |-> FALSE]}
    ELSE IF s.configuration.val.interaction_mode = "Playback"
    THEN playback_data(s, file)
    ELSE IF ~s.configuration.val.domain_name
    THEN {[kind |-> "err", server |-> s, err |-> "NotConfigured", index |-> -1,
           forwarded |-> FALSE]}
    ELSE LET o == record_data(s, upstream) IN
         IF o.kind # "ok" THEN {o}
         ELSE {[o EXCEPT !.server = [s EXCEPT !.interactions = Append(@, o.data)],
                         !.data = o.data.response_data]}

\* The wrapper the binding macro generates starts: the configuration is
\* built and TestSession::before_test called, which reaches the gate.
MacroBeforeTest(t) ==
    /\ pc[t] = "idle"
    /\ \A u \in Threads : u < t => pc[u] # "idle"
    /\ tests_started < MaxTests
    /\ tests_started' = tests_started + 1
    /\ before_calls' = [before_calls EXCEPT ![t] = 1]
    /\ after_calls' = [after_calls EXCEPT ![t] = 0]
    /\ body_panicked' = [body_panicked EXCEPT ![t] = FALSE]
    /\ enter_test(t)
    /\ UNCHANGED << beyond_gate, outcome, call_vars, installed, running >>

\* runner::start_once: the first call takes the instance, spawns the listener
\* thread and puts the instance back; later calls do nothing.
SessionStartOnce(t) ==
    /\ pc[t] = "entered"
    /\ started \/ instance_slot
    /\ start
    /\ pc' = [pc EXCEPT ![t] = "listening"]
    /\ UNCHANGED << is_test_running, instance_slot, server, session_error, disk, hpc,
                    last_reply, pending, tests_started, result, served,
                    macro_vars, call_vars, installed, running >>

\* TestSession::before_test: ServirtiumServer::instance().
SessionBeforeTestInstance(t) ==
    /\ pc[t] = "listening"
    /\ instance
    /\ pc' = [pc EXCEPT ![t] = "bt_instance"]
    /\ UNCHANGED << is_test_running, started, listeners, server, session_error, disk,
                    hpc, last_reply, pending, tests_started, result, served, macro_vars, call_vars, installed, running >>

\* TestSession::before_test: the configuration installed, the instance
\* released; the test body starts.
SessionBeforeTestInstall(t) ==
    /\ pc[t] = "bt_instance"
    /\ \E c \in Configurations :
          /\ server' = [server EXCEPT !.configuration = Some(c)]
          /\ installed' = Some(c)
    /\ release_instance
    /\ pc' = [pc EXCEPT ![t] = "body"]
    /\ served' = <<>>
    /\ result' = [result EXCEPT ![t] = None]
    /\ UNCHANGED << is_test_running, started, listeners, session_error, disk, hpc,
                    last_reply, pending, tests_started, macro_vars, call_vars, running >>

\* A wrapper that would let the body's panic unwind through it: no
\* catch_unwind, after_test is not reached.
MacroUnwindWithoutAfterTest(t) ==
    /\ pc[t] = "body"
    /\ body_panicked' = [body_panicked EXCEPT ![t] = TRUE]
    /\ outcome' = "panic_body"
    /\ pc' = [pc EXCEPT ![t] = "idle"]
    /\ UNCHANGED << is_test_running, beyond_gate, tests_started, before_calls, after_calls,
                    call_vars, installed, running >>

\* The wrapper, body panicked: catch_unwind returns the panic and after_test
\* is called inside the if let Err.
MacroAfterTestOnPanic(t) ==
    /\ pc[t] = "body"
    /\ body_panicked' = [body_panicked EXCEPT ![t] = TRUE]
    /\ after_calls' = [after_calls EXCEPT ![t] = @ + 1]
    /\ pc' = [pc EXCEPT ![t] = "at_call"]
    /\ UNCHANGED << is_test_running, beyond_gate, tests_started, before_calls, outcome,
                    call_vars, installed, running >>

\* The wrapper, body returned: after_test is called after the if let Err.
MacroAfterTestOnReturn(t) ==
    /\ pc[t] = "body"
    /\ body_panicked' = [body_panicked EXCEPT ![t] = FALSE]
    /\ after_calls' = [after_calls EXCEPT ![t] = @ + 1]
    /\ pc' = [pc EXCEPT ![t] = "at_call"]
    /\ UNCHANGED << is_test_running, beyond_gate, tests_started, before_calls, outcome,
                    call_vars, installed, running >>

\* TestSession::after_test: ServirtiumServer::instance().
SessionAfterTestInstance(t) ==
    /\ pc[t] = "at_call"
    /\ instance
    /\ pc' = [pc EXCEPT ![t] = "at_instance"]
    /\ UNCHANGED << is_test_running, started, listeners, server, session_error, disk,
                    hpc, last_reply, pending, tests_started, result, served, macro_vars, call_vars, installed, running >>

\* TestSession::after_test: func(), reset, release_instance.
SessionAfterTestRun(t) ==
    /\ pc[t] = "at_instance"
    /\ \E r \in {session_after_test(server, session_error, disk)} :
       /\ server' = r.server
       /\ session_error' = r.slot
       /\ disk' = r.file
       /\ result' = [result EXCEPT ![t] = Some(r.result)]
    /\ release_instance
    /\ pc' = [pc EXCEPT ![t] = "at_exit"]
    /\ UNCHANGED << is_test_running, started, listeners, hpc, last_reply, pending,
                    tests_started, served, macro_vars, call_vars, installed, running >>

\* TestSession::after_test: exit_test, then the result is returned.
SessionAfterTestExit(t) ==
    /\ pc[t] = "at_exit"
    /\ exit_test(t, "returned")
    /\ served' = <<>>
    /\ UNCHANGED << instance_slot, started, listeners, server, session_error, disk, hpc,
                    last_reply, pending, tests_started, result, macro_vars, call_vars, installed, running >>

\* How the wrapper ends once after_test has returned: after_test's error is
\* raised as a panic; else the body's panic is resumed; else the test passes.
macro_outcome(panicked, after_result) ==
    IF ~after_result.ok THEN "panic_servirtium"
    ELSE IF panicked THEN "panic_body"
    ELSE "passed"

\* The wrapper ends; its locals are gone.
MacroEpilogue(t) ==
    /\ pc[t] = "returned"
    /\ outcome' = macro_outcome(body_panicked[t], result[t].val)
    /\ before_calls' = [before_calls EXCEPT ![t] = 0]
    /\ after_calls' = [after_calls EXCEPT ![t] = 0]
    /\ body_panicked' = [body_panicked EXCEPT ![t] = FALSE]
    /\ pc' = [pc EXCEPT ![t] = "idle"]
    /\ result' = [result EXCEPT ![t] = None]
    /\ UNCHANGED << is_test_running, instance_slot, started, listeners, server,
                    session_error, disk, hpc, last_reply, pending, served, tests_started,
                    call_vars, installed, running >>

\* runner::handle_request from the taken instance to release_instance:
\* read_request_data, then the engine. An error returned by ? (or a panic)
\* leaves the function with the instance still a local: it is dropped, and
\* Drop joins the listener thread.
RunnerHandle(r) ==
    /\ hpc[r] = "holding"
    /\ \E read_ok \in BOOLEAN, upstream \in UpstreamOutcomes :
         \E o \in engine_handle_request(server, disk, upstream) :
            LET kind == IF read_ok THEN o.kind ELSE "err" IN
            /\ server' = IF read_ok THEN o.server ELSE server
            /\ served' = IF InTest
                         THEN Append(served, [kind |-> kind,
                                              err |-> IF read_ok THEN o.err ELSE "InvalidBody",
                                              index |-> IF read_ok THEN o.index ELSE -1,
                                              forwarded |-> read_ok /\ o.forwarded])
                         ELSE served
            /\ IF kind = "ok"
               THEN /\ release_instance
                    /\ hpc' = [hpc EXCEPT ![r] = "responding"]
                    /\ pending' = [pending EXCEPT ![r] = Some(o.data)]
               ELSE /\ hpc' = [hpc EXCEPT ![r] = "joining"]
                    /\ UNCHANGED << instance_slot, pending >>
    /\ UNCHANGED << gate_vars, started, listeners, session_error, disk, last_reply,
                    tests_started, result, macro_vars, call_vars, installed, running >>

\* runner::handle_request after release_instance and the service closure of
\* start_once: the response is built; an error is handed to
\* TestSession::set_error and answered with Response::new(Body::empty()).
RunnerRespond(r) ==
    /\ hpc[r] = "responding"
    /\ LET data == pending[r].val
           headers == put_headers(data.headers)
       IN  IF headers.ok
           THEN /\ last_reply' = Some(Reply(HttpResponse(data.status_code, headers.val,
                                                         data.body), ""))
                /\ UNCHANGED session_error
           ELSE /\ last_reply' = Some(Reply(HttpResponse(DefaultStatus, EmptyHeaders, EmptyBody),
                                            headers.err))
                /\ session_error' = set_error(headers.err)
    /\ hpc' = [hpc EXCEPT ![r] = "done"]
    /\ pending' = [pending EXCEPT ![r] = None]
    /\ UNCHANGED << gate_vars, instance_slot, started, listeners, server, disk,
                    tests_started, result, served, macro_vars, call_vars, installed, running >>

SessionNext ==
    \/ \E t \in Threads : MacroBeforeTest(t)
    \/ \E t \in Threads : WakeUp(t)
    \/ \E t \in Threads : SpuriousWakeUp(t)
    \/ \E t \in Threads : SessionStartOnce(t)
    \/ \E t \in Threads : SessionBeforeTestInstance(t)
    \/ \E t \in Threads : SessionBeforeTestInstall(t)
    \/ \E t \in Threads : MacroAfterTestOnPanic(t)
    \/ \E t \in Threads : MacroAfterTestOnReturn(t)
    \/ \E t \in Threads : SessionAfterTestInstance(t)
    \/ \E t \in Threads : SessionAfterTestRun(t)
    \/ \E t \in Threads : SessionAfterTestExit(t)
    \/ \E t \in Threads : MacroEpilogue(t)
    \/ \E r \in RunnerRequests : Arrive(r)
    \/ \E r \in RunnerRequests : HandlerInstance(r)
    \/ \E r \in RunnerRequests : RunnerHandle(r)
    \/ \E r \in RunnerRequests : RunnerRespond(r)

SpecSession == Init /\ [][SessionNext]_vars

\* ------------------------------------------------------------- scheduling
\* A runnable thread or task is eventually run: every step of before_test,
\* after_test and of a request handler is taken once it stays enabled. A
\* test body is assumed to end, so after_test is eventually called. Starting
\* a test, the arrival of a request and a spurious wake-up are not required.
Fairness ==
    /\ \A t \in Threads :
         /\ WF_vars(WakeUp(t))
         /\ WF_vars(BeforeTestInstance(t))
         /\ WF_vars(BeforeTestInstall(t))
         /\ WF_vars(AfterTestInstance(t))
         /\ WF_vars(AfterTestRun(t))
         /\ WF_vars(AfterTestExit(t))
    /\ \A r \in Requests :
         /\ WF_vars(HandlerInstance(r))
         /\ WF_vars(HandlerRun(r))

FairSpec == Spec /\ Fairness

\* ------------------------------------ the store and the mutations on their own
\* Bodies a conversation may hold: plain, with whitespace around them, with
\* \r\n or \n inside; some are the beginning of others, some are not.
StoreBodies ==
    { <<>>, <<"a">>, <<" ", "a">>, <<"a", "\n">>, <<"a", "\r", "\n", "b">>,
      <<"a", "\n", "b">>, <<"b">> }

\* Header maps a conversation may hold: none, one header, a name with a
\* digit, a name in upper case, a value with whitespace around it.
StoreHeaders ==
    { EmptyHeaders,
      (<<"d", "a", "t", "e">> :> <<"u">>),
      (<<"d", "a", "t", "e">> :> <<"u">>) @@ (ContentType :> TextPlain),
      (<<"x", "-", "b", "3">> :> <<"u">>),
      (<<"D", "a", "t", "e">> :> <<"u">>),
      (<<"d", "a", "t", "e">> :> <<" ", "u">>) }

\* One interaction with the given response headers and bodies.
StoreInteraction(headers, request_body, response_body) ==
    [ interaction_number |-> 0,
      request_data |-> [RequestData EXCEPT !.body = request_body],
      response_data |-> ResponseData(200, headers, response_body) ]

\* The lists save_interactions is called with.
SavedLists ==
    { <<>> } \cup
    { <<StoreInteraction(h, <<>>, b)>> : h \in StoreHeaders, b \in StoreBodies } \cup
    { <<StoreInteraction(EmptyHeaders, b, <<"a">>)>> : b \in StoreBodies } \cup
    { <<StoreInteraction(EmptyHeaders, <<>>, <<"a">>),
        [StoreInteraction(EmptyHeaders, <<>>, b) EXCEPT !.interaction_number = 1]>> :
          b \in StoreBodies }

\* The lists a conversation file was saved from, and the lists it is compared
\* with.
ComparedLists ==
    { <<>> } \cup
    { <<StoreInteraction(h, <<>>, b)>> : h \in StoreHeaders, b \in StoreBodies } \cup
    { <<StoreInteraction(EmptyHeaders, <<>>, <<"a">>),
        [StoreInteraction(EmptyHeaders, <<>>, <<"a", "\n", "b">>)
            EXCEPT !.interaction_number = 1]>> }

\* save_interactions followed by load_interactions.
RoundTripCalls ==
    { [op |-> "round_trip", stage |-> "new", interactions |-> xs] : xs \in SavedLists }

\* check_data_unchanged on a file saved from one list, with another list.
CompareCalls ==
    { [op |-> "check_data_unchanged", on_file |-> a, interactions |-> b] :
        a \in ComparedLists, b \in ComparedLists }

\* Bodies of one, two and three lines: shorter than the radius of a context,
\* and longer than twice that radius.
ComparedBodies ==
    { <<"a", "b", "\n", "c">>,
      <<"a", "b", "\n", "c", "d", "\n", "x", "f">>,
      <<"a", "b", "\n", "c", "d", "e", "f", "g", "h", "i", "k", "\n", "l", "n", "o", "p", "r", "s", "t", "u", "x", "y">> }

\* A body with the character at index p (from 0) changed: to a newline and to
\* a letter it does not hold there.
ChangedBodies(body, p) ==
    { [body EXCEPT ![p + 1] = c] : c \in {"\n", "x", "y"} \ {body[p + 1]} }

\* find_difference on a body and the same body changed at index p, the
\* changed body on either side.
FindDifferenceCallsAt(body, p) ==
    UNION { { [op |-> "find_difference", old_body |-> body, new_body |-> changed,
               position |-> p],
              [op |-> "find_difference", old_body |-> changed, new_body |-> body,
               position |-> p] } :
            changed \in ChangedBodies(body, p) }

\* find_difference on two bodies of equal length that differ in exactly one
\* character, at every index.
FindDifferenceCalls ==
    UNION { UNION { FindDifferenceCallsAt(body, p) : p \in 0..Len(body) - 1 } :
            body \in ComparedBodies }

\* Header maps a mutation is applied to: as the listener extracts them (lower
\* case names) and as parse_headers reads them from a file written with
\* names in upper case.
MutatedHeaders ==
    { EmptyHeaders,
      (<<"d", "a", "t", "e">> :> <<"u">>),
      (<<"d", "a", "t", "e">> :> <<"u">>) @@ (ContentType :> TextPlain),
      parse_headers(write_headers(<<<<"D", "a", "t", "e">>>>, (<<"D", "a", "t", "e">> :> <<"u">>), LF)),
      parse_headers(write_headers(<<ContentType, <<"D", "a", "t", "e">>>>,
                                  (<<"D", "a", "t", "e">> :> <<"u">>) @@ (ContentType :> TextPlain), LF)) }

\* The names RemoveHeadersMutation::new is given.
RemovedNames ==
    { {<<"d", "a", "t", "e">>}, {<<"D", "a", "t", "e">>}, {ContentType}, {<<"D", "a", "t", "e">>, ContentType}, {<<"d", "a", "t", "e">>, <<"D", "a", "t", "e">>} }

\* RemoveHeadersMutation::new followed by its mutate on a header map.
RemoveHeadersCalls ==
    { [op |-> "remove_headers", names |-> names, headers |-> headers] :
        names \in RemovedNames, headers \in MutatedHeaders }

\* Bodies with no, one, two and three matches of the patterns.
MutatedBodies ==
    { <<>>, <<"b">>, <<"a">>, <<"a", "a">>, <<"a", "b", "a">>, <<"a", "b", "a", "b">>, <<"a", "a", "a">> }

\* BodyReplaceRegexMutation::new followed by its mutate on a body.
BodyReplaceRegexCalls ==
    { [op |-> "body_replace_regex", pattern |-> pattern, substitution |-> substitution,
       body |-> body] :
        pattern \in {<<"a">>, <<"a", "b">>}, substitution \in {<<>>, <<"x">>},
        body \in MutatedBodies }

\* The calls made of the store and of the mutations on their own.
Calls ==
    RoundTripCalls \cup CompareCalls \cup FindDifferenceCalls \cup RemoveHeadersCalls
        \cup BodyReplaceRegexCalls

\* The file a call finds.
FileOf(c) ==
    IF c.op = "check_data_unchanged" THEN save_interactions(c.on_file) ELSE <<>>

InitCalls ==
    /\ is_test_running = FALSE
    /\ pc = [t \in Threads |-> "idle"]
    /\ instance_slot = TRUE
    /\ started = FALSE
    /\ listeners = 0
    /\ server = NewServer
    /\ session_error = None
    /\ hpc = [r \in Requests |-> "new"]
    /\ last_reply = None
    /\ pending = [r \in Requests |-> None]
    /\ tests_started = 0
    /\ result = [t \in Threads |-> None]
    /\ served = <<>>
    /\ body_panicked = [t \in Threads |-> FALSE]
    /\ before_calls = [t \in Threads |-> 0]
    /\ after_calls = [t \in Threads |-> 0]
    /\ outcome = "none"
    /\ call \in Calls
    /\ disk = FileOf(call)
    /\ ret = None
    /\ installed = None
    /\ running = {}

\* What a call leaves alone.
beyond_calls ==
    << is_test_running, pc, instance_slot, started, listeners, server, session_error, hpc,
       last_reply, pending, tests_started, result, served, macro_vars, installed, running >>

\* save_interactions called with a list.
StoreSave ==
    /\ call.op = "round_trip" /\ call.stage = "new"
    /\ disk' = save_interactions(call.interactions)
    /\ call' = [call EXCEPT !.stage = "saved"]
    /\ UNCHANGED << ret, beyond_calls >>

\* load_interactions called on the file just saved.
StoreLoad ==
    /\ call.op = "round_trip" /\ call.stage = "saved" /\ ret = None
    /\ ret' = Some(load_interactions(disk))
    /\ UNCHANGED << call, disk, beyond_calls >>

\* check_data_unchanged called with a list, on the file as it is.
StoreCompare ==
    /\ call.op = "check_data_unchanged" /\ ret = None
    /\ ret' = Some(check_data_unchanged(disk, call.interactions))
    /\ UNCHANGED << call, disk, beyond_calls >>

\* find_difference called on two bodies.
StoreFindDifference ==
    /\ call.op = "find_difference" /\ ret = None
    /\ ret' = Some(find_difference(call.old_body, call.new_body))
    /\ UNCHANGED << call, disk, beyond_calls >>

\* RemoveHeadersMutation::new with names, then mutate on a header map.
MutateRemoveHeaders ==
    /\ call.op = "remove_headers" /\ ret = None
    /\ ret' = Some(RemoveHeadersMutation_mutate(RemoveHeadersMutation(call.names),
                                                call.headers))
    /\ UNCHANGED << call, disk, beyond_calls >>

\* BodyReplaceRegexMutation::new with a pattern and a substitution, then
\* mutate on a body.
MutateBodyReplaceRegex ==
    /\ call.op = "body_replace_regex" /\ ret = None
    /\ ret' = Some(BodyReplaceRegexMutation_mutate(
                       BodyReplaceRegexMutation(call.pattern, call.substitution),
                       call.body))
    /\ UNCHANGED << call, disk, beyond_calls >>

CallsNext ==
    \/ StoreSave
    \/ StoreLoad
    \/ StoreCompare
    \/ StoreFindDifference
    \/ MutateRemoveHeaders
    \/ MutateBodyReplaceRegex

SpecCalls == InitCalls /\ [][CallsNext]_vars

\* ------------------------------------------ the listener's runtime at work
\* The listener runs on the worker threads of one tokio runtime
\* (Runtime::new().block_on): a handler task takes a worker while it runs and
\* gives it back when it awaits or ends. instance() is a blocking wait on a
\* Condvar: a handler that waits for the instance keeps its worker.
NumWorkers == 1      \* worker threads of the listener's runtime

\* The first before_test has just returned: the listener is started, the
\* configuration installed, the test body about to send its requests.
InitWorkers ==
    /\ is_test_running = TRUE
    /\ pc = [t \in Threads |-> IF t = 1 THEN "in_test" ELSE "idle"]
    /\ instance_slot = TRUE
    /\ started = TRUE
    /\ listeners = 1
    /\ \E c \in Configurations :
          /\ server = [NewServer EXCEPT !.configuration = Some(c)]
          /\ installed = Some(c)
    /\ session_error = None
    /\ disk \in InitialFiles
    /\ hpc = [r \in Requests |-> "new"]
    /\ last_reply = None
    /\ pending = [r \in Requests |-> None]
    /\ tests_started = 1
    /\ result = [t \in Threads |-> None]
    /\ served = <<>>
    /\ body_panicked = [t \in Threads |-> FALSE]
    /\ before_calls = [t \in Threads |-> 0]
    /\ after_calls = [t \in Threads |-> 0]
    /\ outcome = "none"
    /\ call = None
    /\ ret = None
    /\ running = {}

\* What the runtime's scheduling leaves alone.
beyond_workers ==
    << gate_vars, started, listeners, session_error, disk, pending, tests_started, result,
       macro_vars, call_vars, installed >>

\* A free worker polls the handler task of an accepted request for the first
\* time.
WorkerPoll(r) ==
    /\ hpc[r] = "accepted"
    /\ r \notin running
    /\ Cardinality(running) < NumWorkers
    /\ running' = running \cup {r}
    /\ UNCHANGED << hpc, instance_slot, server, last_reply, served, beyond_workers >>

\* The service closure, on its worker: Self::instance() returns once the slot
\* holds the server; until then the worker is blocked in it.
WorkerInstance(r) ==
    /\ hpc[r] = "accepted"
    /\ r \in running
    /\ instance
    /\ hpc' = [hpc EXCEPT ![r] = "holding"]
    /\ UNCHANGED << running, server, last_reply, served, beyond_workers >>

\* handle_request reaches an await that is not ready: in a recording with an
\* upstream domain, the read of the request body and the outbound call of
\* forward_request.
Awaits(s) ==
    /\ s.configuration # None
    /\ s.configuration.val.interaction_mode = "Record"
    /\ s.configuration.val.domain_name

\* handle_request(req).await to its end, release_instance, the response (or
\* the panic that unwinds the task).
WorkerHandle(r) ==
    \E read_ok \in BOOLEAN, upstream \in UpstreamOutcomes :
       \E o \in handle_request(server, disk, read_ok, upstream) :
          /\ server' = o.server
          /\ served' = IF InTest THEN Append(served, Served(o)) ELSE served
          /\ IF o.kind = "panic"
             THEN /\ hpc' = [hpc EXCEPT ![r] = "joining"]
                  /\ UNCHANGED << instance_slot, last_reply >>
             ELSE /\ hpc' = [hpc EXCEPT ![r] = "done"]
                  /\ release_instance
                  /\ last_reply' = Some(Reply(o.response, o.err))

\* The handler holds the instance and awaits the origin: its task is
\* suspended and the worker is free for other tasks.
WorkerAwait(r) ==
    /\ hpc[r] = "holding"
    /\ r \in running
    /\ Awaits(server)
    /\ hpc' = [hpc EXCEPT ![r] = "suspended"]
    /\ running' = running \ {r}
    /\ UNCHANGED << instance_slot, server, last_reply, served, beyond_workers >>

\* The handler runs to its end without awaiting anything (Playback, a
\* recording without a domain); the worker is free again.
WorkerRun(r) ==
    /\ hpc[r] = "holding"
    /\ r \in running
    /\ ~Awaits(server)
    /\ WorkerHandle(r)
    /\ running' = running \ {r}
    /\ UNCHANGED beyond_workers

\* The origin has answered (or failed): a free worker polls the suspended
\* task again, which runs to its end.
WorkerResume(r) ==
    /\ hpc[r] = "suspended"
    /\ Cardinality(running) < NumWorkers
    /\ WorkerHandle(r)
    /\ UNCHANGED << running, beyond_workers >>

WorkersNext ==
    \/ \E r \in Requests : Arrive(r)
    \/ \E r \in Requests : WorkerPoll(r)
    \/ \E r \in Requests : WorkerInstance(r)
    \/ \E r \in Requests : WorkerAwait(r)
    \/ \E r \in Requests : WorkerRun(r)
    \/ \E r \in Requests : WorkerResume(r)

SpecWorkers == InitWorkers /\ [][WorkersNext]_vars

\* Every worker that can run does run: a task that can be polled is polled,
\* a handler that can take the instance takes it, a poll goes on to its await
\* or to its end. The origin is assumed to answer every call.
WorkersFairness ==
    \A r \in Requests :
        /\ WF_vars(WorkerPoll(r))
        /\ WF_vars(WorkerInstance(r))
        /\ WF_vars(WorkerAwait(r))
        /\ WF_vars(WorkerRun(r))
        /\ WF_vars(WorkerResume(r))

FairSpecWorkers == SpecWorkers /\ WorkersFairness

\* ------------------------------------------------------ a long Playback test
\* A conversation of 256 interactions, numbered 0 to 255.
LongConversation == [i \in 1..(U8_MAX + 1) |-> InteractionData(i - 1, RespPong)]

\* The file of the long conversation, and the list it loads as.
LongFile == save_interactions(LongConversation)
LongLoaded == load_interactions(LongFile).val

\* One request more than the ordinal can count.
MaxLongRequests == U8_MAX + 2

\* The Playback configuration of the tests.
PlaybackConfiguration == CHOOSE c \in Configurations : c.interaction_mode = "Playback"

\* A Playback test over the long file, n requests behind it, each answered
\* from the file; the listener has accepted the next request.
InitLongTest ==
    \E n \in 0..(U8_MAX + 1) :
        /\ is_test_running = TRUE
        /\ pc = [t \in Threads |-> IF t = 1 THEN "in_test" ELSE "idle"]
        /\ instance_slot = TRUE
        /\ started = TRUE
        /\ listeners = 1
        /\ server = [NewServer EXCEPT
                         !.configuration = Some(PlaybackConfiguration),
                         !.markdown_data = IF n = 0 THEN None ELSE Some(LongLoaded),
                         !.interaction_number = IF n = 0 THEN 0 ELSE n - 1]
        /\ installed = Some(PlaybackConfiguration)
        /\ session_error = None
        /\ disk = LongFile
        /\ hpc = [r \in Requests |-> IF r = 1 THEN "accepted" ELSE "new"]
        /\ last_reply = None
        /\ pending = [r \in Requests |-> None]
        /\ tests_started = 1
        /\ result = [t \in Threads |-> None]
        /\ served = [k \in 1..n |->
                        [kind |-> "ok", err |-> "", index |-> k - 1, forwarded |-> FALSE]]
        /\ body_panicked = [t \in Threads |-> FALSE]
        /\ before_calls = [t \in Threads |-> 0]
        /\ after_calls = [t \in Threads |-> 0]
        /\ outcome = "none"
        /\ call = None
        /\ ret = None
        /\ running = {}

\* The client has read the response and sends the next request of the test
\* on the same connection.
LongTestNextRequest ==
    /\ hpc[1] = "done"
    /\ Len(served) < MaxLongRequests
    /\ hpc' = [hpc EXCEPT ![1] = "new"]
    /\ UNCHANGED << gate_vars, instance_slot, started, listeners, server, session_error,
                    disk, last_reply, pending, tests_started, result, served, macro_vars,
                    call_vars, installed, running >>

LongTestNext ==
    \/ LongTestNextRequest
    \/ Arrive(1)
    \/ HandlerInstance(1)
    \/ HandlerRun(1)

SpecLongTest == InitLongTest /\ [][LongTestNext]_vars

\* ------------------------------------------------------------- properties
\* Thread t is between the return of its before_test and the completion of
\* its after_test.
TestActive(t) ==
    pc[t] \in {"in_test", "body", "at_call", "at_instance", "at_exit", "joining"}

\* Thread t is blocked in enter_test.
Blocked(t) == pc[t] \in {"waiting", "woken"}

\* C1: at most one test is active at any time: no two threads are both
\* between the return of their before_test and the completion of their
\* after_test.
C1_AtMostOneActiveTest ==
    \A t1, t2 \in Threads : TestActive(t1) /\ TestActive(t2) => t1 = t2

\* A test is active while another thread is blocked in before_test.
C1_Witness ==
    \E t1, t2 \in Threads : TestActive(t1) /\ pc[t2] = "waiting"

C3_AfterTestOncePerBeforeTest ==
    \A t \in Threads :
        /\ after_calls[t] <= before_calls[t]
        /\ pc[t] \in {"at_call", "at_instance", "at_exit", "returned"}
              => after_calls[t] = 1 /\ before_calls[t] = 1
        /\ pc[t] = "idle" => after_calls[t] = before_calls[t]

\* A wrapper whose body panicked has ended, the panic resumed.
C3_Witness ==
    \E t \in Threads :
        pc[t] = "returned" /\ body_panicked[t] /\ after_calls[t] = 1

\* The engine is configured for Playback.
PlaybackConfigured ==
    /\ server.configuration # None
    /\ server.configuration.val.interaction_mode = "Playback"

\* C4: in Playback the k-th request handled in a test (k from 0) that is
\* answered from the file is answered with the k-th loaded interaction.
C4_PlaybackInFileOrder ==
    PlaybackConfigured =>
        \A k \in 1..Len(served) :
            served[k].kind = "ok" => served[k].index = k - 1

\* C5: in Record with fail_if_markdown_changed false, once after_test has
\* returned without error the file holds as many interactions as requests
\* were handled successfully in the test, numbered 0, 1, ... in order.
C5_RecordSavesCapturedInOrder ==
    \A t \in Threads :
        ( /\ pc[t] = "at_exit"
          /\ result[t] = Some(Ok)
          /\ server.configuration.val.interaction_mode = "Record"
          /\ ~server.configuration.val.fail_if_markdown_changed )
        => /\ Len(disk) = Cardinality({k \in 1..Len(served) : served[k].kind = "ok"})
           /\ \A i \in 1..Len(disk) : disk[i].interaction_number = i - 1

\* C6: a request whose handling failed is answered with status 500 and an
\* empty body, and the failure never leaves the handler without an answer.
C6_FailureAnsweredWith500 ==
    /\ \A r \in Requests : hpc[r] # "joining"
    /\ (last_reply # None /\ last_reply.val.error # "")
          => /\ last_reply.val.response.status = 500
             /\ last_reply.val.response.body = EmptyBody

\* A handler of a request of the running test has failed.
FailedInTest == \E k \in 1..Len(served) : served[k].kind # "ok"

\* The instance is in its slot, or held by a caller that will put it back.
InstanceAvailable ==
    \/ instance_slot
    \/ \E t \in Threads : pc[t] \in {"bt_instance", "at_instance"}
    \/ \E r \in Requests : hpc[r] = "holding"

\* C7: a handler that failed during a test never leaves the instance taken,
\* so that the following after_test can take it, return the latched error
\* and terminate.
C7_InstanceNeverLeftTaken == FailedInTest => InstanceAvailable

\* The k-th request of the test asked for an interaction past the end of
\* the loaded file.
PastTheEnd(k) ==
    /\ server.markdown_data # None
    /\ served[k].index >= Len(server.markdown_data.val)

\* C8: in Playback a request that arrives after every loaded interaction
\* has been consumed is reported as a handler error (latched, answered); it
\* does not crash the handler.
C8_PlaybackPastTheEndReported ==
    PlaybackConfigured =>
        \A k \in 1..Len(served) :
            PastTheEnd(k) => served[k].kind = "err" /\ server.error # None

\* The per-test state of the engine is clean.
Clean(s) ==
    /\ s.interactions = <<>>
    /\ s.markdown_data = None
    /\ s.interaction_number = 0
    /\ s.error = None

\* C9: at the moment before_test returns, captured is empty, loaded is
\* absent, the ordinal is 0 and the error slot (of the engine and of the
\* session) is empty.
C9_CleanWhenBeforeTestReturns ==
    [][\A t \in Threads :
          (pc[t] = "bt_instance" /\ pc'[t] \in {"in_test", "body"})
          => Clean(server') /\ session_error' = None]_vars

\* The stored conversation and the captured one differ at some position
\* they both have.
ConversationsDiffer(file, xs) ==
    LET loaded == load_interactions(file) IN
    /\ loaded.ok
    /\ \E i \in 1..Min(Len(loaded.val), Len(xs)) : PairDiffers(loaded.val[i], xs[i])

\* C10: in Record with fail_if_markdown_changed true and no latched error,
\* when the captured interactions differ from the conversation on disk at
\* the start of the test, after_test returns an error. Only after_test
\* writes the file, so the file after_test finds is the one of the test's
\* start.
C10_ChangedConversationReported ==
    [][\A t \in Threads :
          ( /\ pc[t] = "at_instance" /\ pc'[t] = "at_exit"
            /\ server.configuration.val.interaction_mode = "Record"
            /\ server.configuration.val.fail_if_markdown_changed
            /\ session_error = None /\ server.error = None
            /\ ConversationsDiffer(disk, server.interactions) )
          => ~result'[t].val.ok]_vars

\* C11: in Record with fail_if_markdown_changed true and no latched error,
\* the conversation is compared before it is saved: when the captured
\* interactions differ from the conversation on disk, after_test leaves the
\* file with the content it had.
C11_CompareBeforeSave ==
    [][\A t \in Threads :
          ( /\ pc[t] = "at_instance" /\ pc'[t] # "at_instance"
            /\ server.configuration.val.interaction_mode = "Record"
            /\ server.configuration.val.fail_if_markdown_changed
            /\ session_error = None /\ server.error = None
            /\ ConversationsDiffer(disk, server.interactions) )
          => disk' = disk]_vars

\* C12: when an error was latched during a Record test, after_test neither
\* saves nor compares: the conversation on disk is left as it was and the
\* latched error is what after_test returns.
C12_LatchedErrorSkipsTheStore ==
    [][\A t \in Threads :
          ( /\ pc[t] = "at_instance" /\ pc'[t] # "at_instance"
            /\ server.configuration.val.interaction_mode = "Record"
            /\ server.error # None )
          => /\ disk' = disk
             /\ result'[t] = Some(Err(server.error.val))]_vars

\* A Record test whose request failed upstream has run after_test, which
\* returned the latched error.
C12_Witness ==
    \E t \in Threads :
        /\ pc[t] = "at_exit"
        /\ server.configuration.val.interaction_mode = "Record"
        /\ served # <<>>
        /\ result[t] = Some(Err("ReqwestError"))

\* C13: every call of after_test, whatever it returns, resets the engine,
\* puts the instance back and clears the gate before it returns.
C13_AfterTestAlwaysCleansUp ==
    [][\A t \in Threads :
          /\ (pc[t] = "at_instance" /\ pc'[t] # "at_instance")
             => pc'[t] = "at_exit" /\ instance_slot' /\ Clean(server')
          /\ (pc[t] = "at_exit" /\ pc'[t] # "at_exit")
             => ~is_test_running']_vars

\* C14: in Playback the response sent to the client carries the status code
\* and the body recorded in the interaction it serves.
C14_PlaybackCarriesRecordedStatus ==
    [][\A r \in Requests :
          ( /\ hpc[r] = "holding" /\ hpc'[r] = "done"
            /\ server.configuration # None
            /\ server.configuration.val.interaction_mode = "Playback"
            /\ last_reply'.val.error = "" )
          => LET recorded == server'.markdown_data.val[server'.interaction_number + 1]
                                 .response_data
             IN  /\ last_reply'.val.response.status = recorded.status_code
                 /\ last_reply'.val.response.body = recorded.body]_vars

\* C15: no response sent to the client, in Playback or in Record, has a
\* transfer-encoding header of value chunked, however the name is spelt in
\* the file or in the upstream reply.
C15_NoChunkedTransferEncodingSent ==
    last_reply # None
    => \A k \in DOMAIN last_reply.val.response.headers :
          ~( /\ ToLowercase(k) = ToLowercase(<<"T", "r", "a", "n", "s", "f", "e", "r", "-", "E", "n", "c", "o", "d", "i", "n", "g">>)
             /\ last_reply.val.response.headers[k] = Chunked )

\* C16: while Playback is configured no step writes the conversation file,
\* and no request handled in the test calls the outbound client: a Playback
\* test (its requests, then after_test) leaves the file as it was.
C16_PlaybackNeitherForwardsNorSaves ==
    [][PlaybackConfigured
          => /\ disk' = disk
             /\ Len(served') > Len(served) => ~served'[Len(served')].forwarded]_vars

\* A Playback test served a request from the file and has run after_test.
C16_Witness ==
    \E t \in Threads :
        /\ pc[t] = "at_exit"
        /\ PlaybackConfigured
        /\ served # <<>>
        /\ served[1].kind = "ok"
        /\ result[t] = Some(Ok)

\* C17: the engine holds a configuration only between a before_test and its
\* after_test: while no test is between the return of its before_test and
\* the return of its after_test, the configuration is absent.
C17_ConfigurationOnlyDuringATest ==
    (\A t \in Threads : ~TestActive(t)) => server.configuration = None

\* C18: over any number of before_test calls from any number of threads the
\* listener thread is created exactly once: there is none before the first
\* before_test, never more than one, and one as soon as a before_test has
\* returned.
C18_ListenerCreatedOnce ==
    /\ listeners <= 1
    /\ tests_started = 0 => listeners = 0
    /\ (started \/ \E t \in Threads : TestActive(t)) => listeners = 1

\* The second before_test has returned, the first test being over: start
\* has been called twice and there is one listener.
C18_Witness ==
    /\ tests_started >= 2
    /\ \E t \in Threads :
          /\ pc[t] = "in_test"
          /\ \A u \in Threads \ {t} : pc[u] = "idle"
    /\ listeners = 1

\* Record is configured without an upstream domain.
RecordWithoutDomain ==
    /\ server.configuration # None
    /\ server.configuration.val.interaction_mode = "Record"
    /\ ~server.configuration.val.domain_name

\* C19: in Record with no upstream domain configured every request fails
\* with NotConfigured: the error is latched, the client gets a 500, the
\* outbound client is not called and nothing is appended to the captured
\* list.
C19_RecordWithoutDomainNotConfigured ==
    [][\A r \in Requests :
          (hpc[r] = "holding" /\ hpc'[r] # "holding" /\ RecordWithoutDomain)
          => /\ hpc'[r] = "done"
             /\ server'.error = Some("NotConfigured")
             /\ last_reply' = Some(Reply(HttpResponse(500, EmptyHeaders, EmptyBody),
                                         "NotConfigured"))
             /\ server'.interactions = server.interactions
             /\ Len(served') > Len(served) => ~served'[Len(served')].forwarded]_vars

\* A request of a recording without a domain has been answered.
C19_Witness ==
    /\ RecordWithoutDomain
    /\ InTest
    /\ served # <<>>
    /\ last_reply # None
    /\ last_reply.val.error = "NotConfigured"
    /\ last_reply.val.response.status = 500

\* What a list of mutations makes of an interaction: each applied in turn.
RECURSIVE apply_mutations(_, _)
apply_mutations(ms, interaction) ==
    IF ms = <<>> THEN interaction
    ELSE apply_mutations(Tail(ms), mutate(Head(ms), interaction))

\* C20: in Record the response stored in the captured interaction is the
\* upstream response after the record-response mutations of the
\* configuration have been applied: applying them to what was stored changes
\* nothing (a header they remove is not in it).
C20_CapturedResponseIsMutated ==
    [][\A r \in Requests :
          ( /\ hpc[r] = "holding" /\ hpc'[r] = "done"
            /\ Len(server'.interactions) = Len(server.interactions) + 1 )
          => LET stored == server'.interactions[Len(server'.interactions)]
                 ms == server.configuration.val.record_response_mutations
             IN  apply_mutations(ms, stored) = stored]_vars

\* C21: the playback-response mutations change the response returned to the
\* client and nothing else: what the client gets is the served interaction's
\* response after them (applying them again changes nothing), while the
\* loaded list and the file in Playback, and the captured interaction in
\* Record, keep the response as it was.
C21_PlaybackMutationsOnlyOnTheReply ==
    [][\A r \in Requests :
          ( /\ hpc[r] = "holding" /\ hpc'[r] = "done"
            /\ server.configuration # None
            /\ last_reply'.val.error = "" )
          => LET config == server.configuration.val
                 stored == IF config.interaction_mode = "Playback"
                           THEN server'.markdown_data.val[server'.interaction_number + 1]
                           ELSE server'.interactions[Len(server'.interactions)]
                 sent == [stored EXCEPT
                              !.response_data.headers = last_reply'.val.response.headers,
                              !.response_data.body = last_reply'.val.response.body]
             IN  /\ apply_mutations(config.playback_response_mutations, sent) = sent
                 /\ disk' = disk
                 /\ config.interaction_mode = "Playback"
                       => server'.markdown_data.val = load_interactions(disk).val]_vars

\* C22: when the wrapper ends, the visible outcome is the body's panic if
\* the body panicked (also when after_test returned an error), else
\* after_test's error if it returned one, else success.
C22_BodyPanicIsTheOutcome ==
    [][\A t \in Threads :
          (pc[t] = "returned" /\ pc'[t] = "idle")
          => outcome' = IF body_panicked[t] THEN "panic_body"
                        ELSE IF ~result[t].val.ok THEN "panic_servirtium"
                        ELSE "passed"]_vars

\* A body with its line endings normalised: \r\n becomes \n.
NormaliseLineEndings(body) == replace(body, CRLF, LF)

\* Two interaction lists are the same up to the line endings of the bodies
\* (header maps have no order).
SameUpToLineEndings(xs, ys) ==
    /\ Len(xs) = Len(ys)
    /\ \A i \in 1..Len(xs) :
          /\ xs[i].interaction_number = ys[i].interaction_number
          /\ xs[i].request_data.method = ys[i].request_data.method
          /\ xs[i].request_data.uri = ys[i].request_data.uri
          /\ xs[i].request_data.headers = ys[i].request_data.headers
          /\ xs[i].response_data.status_code = ys[i].response_data.status_code
          /\ xs[i].response_data.headers = ys[i].response_data.headers
          /\ NormaliseLineEndings(xs[i].request_data.body)
                = NormaliseLineEndings(ys[i].request_data.body)
          /\ NormaliseLineEndings(xs[i].response_data.body)
                = NormaliseLineEndings(ys[i].response_data.body)

\* C23: loading what save_interactions wrote for a list yields that list up
\* to header ordering and line endings: as many interactions, each with the
\* same ordinal, method, URI, status, header maps and bodies.
C23_LoadOfSaveIsCanonical ==
    (call.op = "round_trip" /\ ret # None)
    => /\ ret.val.ok
       /\ SameUpToLineEndings(ret.val.val, call.interactions)

\* Two bodies are the same up to the whitespace around them and \r\n versus \n.
SameBody(x, y) == trim(NormaliseLineEndings(x)) = trim(NormaliseLineEndings(y))

\* Two interaction lists are the same up to header ordering, the whitespace
\* around the bodies and \r\n versus \n in the bodies.
SameConversation(a, b) ==
    /\ Len(a) = Len(b)
    /\ \A i \in 1..Len(a) :
          /\ a[i].interaction_number = b[i].interaction_number
          /\ a[i].request_data.method = b[i].request_data.method
          /\ a[i].request_data.uri = b[i].request_data.uri
          /\ a[i].request_data.headers = b[i].request_data.headers
          /\ a[i].response_data.status_code = b[i].response_data.status_code
          /\ a[i].response_data.headers = b[i].response_data.headers
          /\ SameBody(a[i].request_data.body, b[i].request_data.body)
          /\ SameBody(a[i].response_data.body, b[i].response_data.body)

\* The list check_data_unchanged compares with: the one the file was saved
\* from, as it loads.
ListOnFile == load_interactions(disk)

NewlinesBefore(body, p) == {i \in 0..p - 1 : body[i + 1] = "\n"}

\* The characters between the last newline before index p and index p.
SinceLastNewline(body, p) ==
    LET newlines == NewlinesBefore(body, p)
    IN  IF newlines = {} THEN p
        ELSE p - 1 - (CHOOSE q \in newlines : \A o \in newlines : o <= q)

\* C25: for two bodies of equal length that differ in exactly the character
\* at position p, find_difference reports line 1 + (newlines before p) and
\* column 1 + (characters between the last newline before p and p).
C25_LineAndColumnOfTheDifference ==
    (call.op = "find_difference" /\ ret # None)
    => /\ ret.val # None
       /\ ret.val.val.line = 1 + Cardinality(NewlinesBefore(call.old_body, call.position))
       /\ ret.val.val.column = 1 + SinceLastNewline(call.old_body, call.position)

\* The window of a body around index p: from max(0, p - 10) to
\* min(Len(body), p + 10).
Window(body, p) ==
    SubSeq(body, (IF p > RADIUS THEN p - RADIUS ELSE 0) + 1, Min(Len(body), p + RADIUS))

\* C26: for a difference at position p, each context reported is the window
\* of its body from max(0, p - 10) to min(L, p + 10): min(10, p) + min(10, L - p)
\* characters.
C26_ContextIsTheWindow ==
    (call.op = "find_difference" /\ ret # None)
    => /\ ret.val # None
       /\ ret.val.val.old_context = Window(call.old_body, call.position)
       /\ ret.val.val.new_context = Window(call.new_body, call.position)
       /\ Len(ret.val.val.old_context)
             = Min(RADIUS, call.position) + Min(RADIUS, Len(call.old_body) - call.position)

\* Two header maps have the same names with the same trimmed values.
SameHeaders(old, new) ==
    /\ DOMAIN old = DOMAIN new
    /\ \A k \in DOMAIN old : trim(old[k]) = trim(new[k])

\* C27: when the bodies of a positional pair are equal, check_data_unchanged
\* reports a header difference whenever the header maps of the pair differ (a
\* name only in the old map, a name only in the new map, or different trimmed
\* values for a name) and reports no difference only when they have the same
\* names with the same trimmed values.
C27_DifferentHeaderMapsAreReported ==
    ( /\ call.op = "check_data_unchanged" /\ ret # None
      /\ ListOnFile.ok
      /\ Len(ListOnFile.val) = 1 /\ Len(call.interactions) = 1
      /\ normalise(ListOnFile.val[1].request_data.body)
            = normalise(call.interactions[1].request_data.body)
      /\ normalise(ListOnFile.val[1].response_data.body)
            = normalise(call.interactions[1].response_data.body) )
    => LET old == ListOnFile.val[1]
           new == call.interactions[1]
           same == /\ SameHeaders(old.request_data.headers, new.request_data.headers)
                   /\ SameHeaders(old.response_data.headers, new.response_data.headers)
       IN  /\ ret.val.ok <=> same
           /\ ~ret.val.ok => (ret.val.err = "MarkdownsDiffer"
                                 /\ ret.val.difference.type = "Header")

\* A header name is one of the given names, letter case ignored.
NamedIgnoringCase(k, names) == \E n \in names : ToLowercase(k) = ToLowercase(n)

\* C28: after RemoveHeaders(names) is applied to a header map, the map holds
\* no header whose name is one of the names ignoring letter case, and every
\* header not so named is there with its value.
C28_RemoveHeadersIgnoresCase ==
    (call.op = "remove_headers" /\ ret # None)
    => /\ \A k \in DOMAIN ret.val : ~NamedIgnoringCase(k, call.names)
       /\ \A k \in DOMAIN call.headers :
             ~NamedIgnoringCase(k, call.names)
                => (k \in DOMAIN ret.val /\ ret.val[k] = call.headers[k])

\* The indexes (from 1) at which a text holds a pattern.
MatchesOf(pattern, text) ==
    {i \in 1..Len(text) - Len(pattern) + 1 : SubSeq(text, i, i + Len(pattern) - 1) = pattern}

\* C29: BodyReplaceRegex(pattern, replacement) replaces every non-overlapping
\* match of the pattern in the body: the result is the body with all of them
\* replaced, and holds no match of the pattern any more.
C29_BodyReplaceRegexReplacesAll ==
    (call.op = "body_replace_regex" /\ ret # None)
    => /\ ret.val = replace(call.body, call.pattern, call.substitution)
       /\ MatchesOf(call.pattern, ret.val) = {}

\* C30: a test during which no request was handled ends successfully:
\* in Playback after_test returns Ok, the store was never loaded and the file
\* is as it was; in Record with fail_if_markdown_changed false after_test
\* returns Ok whatever the file holds, an absent file included.
C30_TestWithoutRequestsSucceeds ==
    [][\A t \in Threads :
          ( /\ pc[t] = "at_instance" /\ pc'[t] # "at_instance"
            /\ served = <<>> )
          => LET config == server.configuration.val IN
             /\ config.interaction_mode = "Playback"
                   => /\ result'[t].val.ok
                      /\ server.markdown_data = None
                      /\ disk' = disk
             /\ (config.interaction_mode = "Record" /\ ~config.fail_if_markdown_changed)
                   => result'[t].val.ok]_vars

\* C31: every request handled after a before_test(c) has returned and before
\* the next before_test returns is dispatched on configuration c: whenever a
\* handler holds the instance (it is about to dispatch), and whenever the
\* instance is in its slot for a handler to take, the configuration of the
\* engine is the one of the last before_test that returned.
C31_HandlersUseTheInstalledConfiguration ==
    installed # None
    => /\ (\E r \in Requests : hpc[r] = "holding") => server.configuration = installed
       /\ instance_slot => server.configuration = installed

\* A handler holds the instance during the second test of the run, a
\* recording, the configuration being the one that test installed.
C31_Witness ==
    /\ tests_started = 2
    /\ \E t \in Threads :
          /\ pc[t] = "in_test"
          /\ \A u \in Threads \ {t} : pc[u] = "idle"
    /\ \E r \in Requests : hpc[r] = "holding"
    /\ installed # None
    /\ installed.val.interaction_mode = "Record"
    /\ server.configuration = installed

\* The requests of the running test that were completed successfully.
CompletedInTest == {k \in 1..Len(served) : served[k].kind = "ok"}

\* C32: in Record and in Playback, whenever a test runs and no request is
\* being handled, the ordinal of the engine is the number of interactions
\* completed successfully so far in the test.
C32_OrdinalCountsCompletedInteractions ==
    (InTest /\ \A r \in Requests : hpc[r] # "holding")
    => server.interaction_number = Cardinality(CompletedInTest)

\* The callers that have taken the instance and not yet put it back: a test
\* thread inside before_test or after_test, the handler of a request.
Holders ==
    { <<"test", t>> : t \in {u \in Threads : pc[u] \in {"bt_instance", "at_instance"}} }
        \cup { <<"handler", r>> : r \in {q \in Requests : hpc[q] = "holding"} }

\* C33: the engine instance has at most one holder at any time, the slot is
\* empty while it is held, and the engine state (configuration, captured
\* list, loaded list, ordinal, error) is changed only by a step of the holder:
\* request handling, before_test and after_test are linearised.
C33_OneHolderOfTheInstance ==
    /\ [](Cardinality(Holders) <= 1 /\ (Holders # {} => ~instance_slot))
    /\ [][server' # server
             => \/ \E t \in Threads : /\ pc[t] \in {"bt_instance", "at_instance"}
                                       /\ pc'[t] # pc[t]
                \/ \E r \in Requests : hpc[r] = "holding" /\ hpc'[r] # "holding"]_vars

\* A handler holds the instance while the handler of another request waits
\* for it.
C33_Witness ==
    /\ \E r, q \in Requests : hpc[r] = "holding" /\ hpc[q] = "accepted"
    /\ Cardinality(Holders) = 1
    /\ ~instance_slot

\* C34: a request whose handling fails (it is answered with the error
\* latched) leaves the ordinal and the captured list exactly as they were
\* before the request, in Playback as well as in Record.
C34_FailedRequestLeavesOrdinalAndCaptured ==
    [][\A r \in Requests :
          ( /\ hpc[r] = "holding" /\ hpc'[r] = "done"
            /\ last_reply'.val.error # "" )
          => /\ server'.interaction_number = server.interaction_number
             /\ server'.interactions = server.interactions]_vars

\* List a is a prefix of list b.
IsPrefix(a, b) == Len(a) <= Len(b) /\ SubSeq(b, 1, Len(a)) = a

\* The step is the reset of after_test.
ResetStep == \E t \in Threads : pc[t] = "at_instance" /\ pc'[t] = "at_exit"

\* C35: until reset, the captured list only grows by appending at its end
\* (each state of the list is a prefix of the next), and the loaded list,
\* once loaded, is not modified.
C35_CapturedAppendOnlyLoadedReadOnly ==
    [][~ResetStep
          => /\ IsPrefix(server.interactions, server'.interactions)
             /\ server.markdown_data # None
                   => server'.markdown_data = server.markdown_data]_vars

\* A recording has captured two interactions with different responses.
C35_Witness ==
    /\ InTest
    /\ Len(server.interactions) = 2
    /\ server.interactions[1] # server.interactions[2]

\* C36: when several requests are in flight, the handler that holds the
\* instance and is suspended in its upstream call resumes and ends (the
\* response goes out and the instance is put back), whatever the handlers
\* that wait for the instance do to the workers of the listener.
C36_SuspendedHolderResumes ==
    \A r \in Requests : (hpc[r] = "suspended") ~> (hpc[r] = "done")

\* C37: a request that reaches the engine while no configuration is installed
\* is a latched error answered by the handler: the handler does not crash,
\* the instance is put back and an error is held for after_test.
C37_NoConfigurationIsALatchedError ==
    [][\A r \in Requests :
          ( /\ hpc[r] = "holding" /\ hpc'[r] # "holding"
            /\ server.configuration = None )
          => /\ hpc'[r] # "joining"
             /\ instance_slot'
             /\ server'.error # None \/ session_error' # None]_vars

\* C38: for a positional pair, check_data_unchanged reports a body difference
\* whenever the normalised bodies (of the request or of the response) are not
\* identical, one being a strict prefix of the other included, and takes the
\* bodies for equal only when they are identical after normalisation.
C38_DifferentBodiesAreReported ==
    ( /\ call.op = "check_data_unchanged" /\ ret # None
      /\ ListOnFile.ok
      /\ Len(ListOnFile.val) = 1 /\ Len(call.interactions) = 1 )
    => LET old == ListOnFile.val[1]
           new == call.interactions[1]
           differ == \/ normalise(old.request_data.body) # normalise(new.request_data.body)
                     \/ normalise(old.response_data.body) # normalise(new.response_data.body)
       IN  /\ differ => /\ ~ret.val.ok
                        /\ ret.val.err = "MarkdownsDiffer"
                        /\ ret.val.difference.type = "Body"
           /\ ret.val.ok => ~differ

\* The requests of the running test that failed with an error.
FailuresInTest == {k \in 1..Len(served) : served[k].kind = "err"}

\* The error of the first request of the running test that failed.
FirstErrorInTest ==
    served[CHOOSE k \in FailuresInTest : \A j \in FailuresInTest : k <= j].err

\* C39: when more than one request failed within a test, after_test returns
\* the error of the first request that failed.
C39_FirstErrorIsReturned ==
    [][\A t \in Threads :
          ( /\ pc[t] = "at_instance" /\ pc'[t] # "at_instance"
            /\ Cardinality(FailuresInTest) > 1 )
          => result'[t] = Some(Err(FirstErrorInTest))]_vars

\* C40: in a Playback test the request that would advance the ordinal past
\* 255 is answered with its error latched: the handler does not crash and the
\* ordinal does not wrap around to 0.
C40_OrdinalStaysInRange ==
    [][\A r \in Requests :
          ( /\ hpc[r] = "holding" /\ hpc'[r] # "holding"
            /\ PlaybackConfigured
            /\ server.markdown_data # None
            /\ server.interaction_number = U8_MAX )
          => /\ hpc'[r] = "done"
             /\ last_reply'.val.error # ""
             /\ server'.error # None
             /\ server'.interaction_number = U8_MAX]_vars

=============================================================================
